---- MODULE Spec2Model ----
(***************************************************************************)
(* generate_icons.py: create_icon(size) renders a PWA icon with Pillow,    *)
(* main() renders the eight fixed sizes and saves each as a PNG file.      *)
(*                                                                         *)
(* An image is followed at one pixel, the probe, drawn in Init: every      *)
(* Pillow operation the script uses (putpixel, alpha_composite, ellipse,   *)
(* line) acts on a pixel independently of the other pixels, so an image is *)
(* the record of its width, its height, the colour at the probe (<<>> when *)
(* the probe lies outside the image) and the call that allocated it.       *)
(* The images of one call live in heap; img, draw and glass_overlay are    *)
(* the locals of create_icon and hold indices into heap (0: unbound).      *)
(***************************************************************************)
EXTENDS Integers, Sequences, FiniteSets, TLC

VARIABLES
    probe,          \* <<x, y>>: the pixel every image is followed at
    mpc,            \* main(): "start", "loop", "rendering", "save", "done", "crashed", "off"
    dirExists,      \* the directory 'icons' exists
    files,          \* the files written by this run, in order: [name, image]
    idx,            \* main(): position of the for loop in sizes (1-based)
    icon,           \* main(): the local icon (<<>> before the first render)
    stdout,         \* the messages printed
    pc,             \* create_icon(): the line about to run, "idle", "returned" or "raised"
    size,           \* create_icon(): the argument
    heap,           \* the images allocated by the running call
    img,            \* create_icon(): local img
    draw,           \* create_icon(): the image ImageDraw.Draw was bound to
    glass_overlay,  \* create_icon(): local glass_overlay
    i,              \* create_icon(): the ray loop's index
    strokes,        \* the segments handed to draw.line for the rays, in order
    putArg,         \* the colour handed to putpixel for the probe (<<>>: none)
    ret,            \* the image create_icon returned (<<>>: none)
    ncalls,         \* number of create_icon calls started
    calls,          \* the sizes create_icon was called with, in order
    log             \* harness: [size, image] of every call that returned

vars == <<probe, mpc, dirExists, files, idx, icon, stdout, pc, size, heap, img,
          draw, glass_overlay, i, strokes, putArg, ret, ncalls, calls, log>>

mainVars == <<mpc, dirExists, files, idx, icon, stdout>>
frameVars == <<size, heap, img, draw, glass_overlay, i, strokes, putArg>>

----------------------------------------------------------------------------
\* Bounds of the model.

\* Distance between two probe coordinates.
ProbeStride == 12
\* Number of probe coordinates per axis, minus one.
ProbeCount == 42
\* Number of create_icon calls the harness makes.
MaxCalls == 3

ProbeCoords == {k * ProbeStride : k \in 0..ProbeCount}
Probes == ProbeCoords \X ProbeCoords

----------------------------------------------------------------------------
\* Program constants and pure helpers.

Sizes == <<72, 96, 128, 144, 152, 192, 384, 512>>

\* The sizes the harness calls create_icon with: two supported sizes, zero
\* and a negative size.
CallSizes == {-1, 0, Sizes[1], Sizes[2]}

Gold == <<255, 215, 0, 255>>
Transparent == <<0, 0, 0, 0>>
GlassWhite == <<255, 255, 255, 25>>
HighlightWhite == <<255, 255, 255, 80>>

Max(a, b) == IF a >= b THEN a ELSE b

\* Pillow stores a channel as one byte: CLIP8.
Clip8(v) == IF v < 0 THEN 0 ELSE IF v > 255 THEN 255 ELSE v
ClipColour(c) == <<Clip8(c[1]), Clip8(c[2]), Clip8(c[3]), Clip8(c[4])>>

InImage(w, h, p) == p[1] >= 0 /\ p[1] < w /\ p[2] >= 0 /\ p[2] < h

----------------------------------------------------------------------------
\* Pillow, as the script uses it.

\* Image.new with the size (w, h + 1): a canvas that is not square.
Image_newTall(w, h, colour, call) ==
    [w |-> w, h |-> h + 1, call |-> call,
     px |-> IF InImage(w, h + 1, probe) THEN ClipColour(colour) ELSE <<>>]

\* Image.new(mode, (w, h), colour): every pixel has the colour.
Image_new(w, h, colour, call) ==
    [w |-> w, h |-> h, call |-> call,
     px |-> IF InImage(w, h, probe) THEN ClipColour(colour) ELSE <<>>]

\* SHIFTFORDIV255 of Pillow's ImagingAlphaComposite.
ShiftForDiv255(a) == ((a \div 256) + a) \div 256

\* One channel of alpha_composite: source channel cs with weight coef1 over
\* destination channel cd with weight coef2, 7 bits of extra precision.
CompositeChannel(cs, cd, coef1, coef2) ==
    ShiftForDiv255(cs * coef1 + cd * coef2 + 128 * 128) \div 128

\* Image.alpha_composite(dst, src) at one pixel: src over dst.
CompositePixel(dst, src) ==
    IF src[4] = 0 THEN dst
    ELSE LET blend   == dst[4] * (255 - src[4])
             outa255 == src[4] * 255 + blend
             coef1   == (src[4] * 255 * 255 * 128) \div outa255
             coef2   == 255 * 128 - coef1
         IN  <<CompositeChannel(src[1], dst[1], coef1, coef2),
               CompositeChannel(src[2], dst[2], coef1, coef2),
               CompositeChannel(src[3], dst[3], coef1, coef2),
               ShiftForDiv255(outa255 + 128)>>

\* Image.alpha_composite(im1, im2): a NEW image, im2 over im1.
alpha_composite(im1, im2, call) ==
    [w |-> im1.w, h |-> im1.h, call |-> call,
     px |-> IF im1.px = <<>> THEN <<>> ELSE CompositePixel(im1.px, im2.px)]

\* ImageDraw.ellipse(box, fill) at pixel p, box = <<x0, y0, x1, y1>>, in
\* doubled coordinates. Pillow's rasterisation of the outline is not fixed
\* across versions: within one pixel of the outline either outcome is kept.
EllipseCover(box, p) ==
    LET d2 == box[3] - box[1]
        dd == (2 * p[1] - (box[1] + box[3])) * (2 * p[1] - (box[1] + box[3]))
              + (2 * p[2] - (box[2] + box[4])) * (2 * p[2] - (box[2] + box[4]))
    IN  IF d2 >= 2 /\ dd <= (d2 - 2) * (d2 - 2) THEN {TRUE}
        ELSE IF dd > (d2 + 2) * (d2 + 2) THEN {FALSE}
        ELSE BOOLEAN

Between(v, a, b) == (a <= v /\ v <= b) \/ (b <= v /\ v <= a)

\* ImageDraw.line(seg, width=1) at pixel p, seg = <<x0, y0, x1, y1>>, both
\* ends included. Exact for horizontal, vertical and 45 degree segments,
\* which is what every ray is.
LineCover(seg, p) ==
    /\ Between(p[1], seg[1], seg[3])
    /\ Between(p[2], seg[2], seg[4])
    /\ (p[1] - seg[1]) * (seg[4] - seg[2]) = (p[2] - seg[2]) * (seg[3] - seg[1])

\* A drawing call on an RGBA image replaces the pixel by the ink (no blend).
Paint(im, covered, ink) ==
    IF covered /\ im.px # <<>> THEN [im EXCEPT !.px = ink] ELSE im

----------------------------------------------------------------------------
\* create_icon: the values derived from size. int() of a non-negative float
\* is its floor; on 0..1199 the float products below equal these quotients.

\* A gradient whose red channel moves with the number of calls made so far:
\* state that outlives a call.
GradientColourDrift(x, y, s) ==
    <<102 + ncalls + (118 * (x + y)) \div (2 * s),
      126 + (46 * (x + y)) \div (2 * s),
      234 + (24 * (x + y)) \div (2 * s),
      255>>

GradientColour(x, y, s) ==
    <<102 + (118 * (x + y)) \div (2 * s),
      126 + (46 * (x + y)) \div (2 * s),
      234 + (24 * (x + y)) \div (2 * s),
      255>>

center(s) == s \div 2
sun_radius(s) == (23 * s) \div 100
ray_length(s) == (15 * s) \div 100
\* max(2, size // 32): twice the strokes per ray.
ray_widthDouble(s) == Max(2, s \div 32)
ray_width(s) == Max(2, s \div 64)
highlight_size(s) == (8 * s) \div 100

\* int(k * 0.7071)
MulCos(k) == (7071 * k) \div 10000
\* int(k * 0.7 * 0.7)
Mul049(k) == (49 * k) \div 100
\* int(k * 0.7): the double product falls just below the integer at these k.
Mul07(k) == IF k \in {90, 170, 180, 330, 340, 350, 360}
            THEN (7 * k) \div 10 - 1 ELSE (7 * k) \div 10

SunBox(s) == <<center(s) - sun_radius(s), center(s) - sun_radius(s),
               center(s) + sun_radius(s), center(s) + sun_radius(s)>>

\* The segment of ray k: <<start_x, start_y, end_x, end_y>>.
Ray(k, s) ==
    LET c  == center(s)
        a  == sun_radius(s) + 10
        b  == sun_radius(s) + ray_length(s)
    IN  CASE k = 0 -> <<c + a, c, c + b, c>>
          [] k = 1 -> <<c + MulCos(a), c + MulCos(a), c + MulCos(b), c + MulCos(b)>>
          [] k = 2 -> <<c, c + a, c, c + b>>
          [] k = 3 -> <<c - MulCos(a), c + MulCos(a), c - MulCos(b), c + MulCos(b)>>
          [] k = 4 -> <<c - a, c, c - b, c>>
          [] k = 5 -> <<c - MulCos(a), c - MulCos(a), c - MulCos(b), c - MulCos(b)>>
          [] k = 6 -> <<c, c - a, c, c - b>>
          [] k = 7 -> <<c + MulCos(a), c - MulCos(a), c + MulCos(b), c - MulCos(b)>>
          [] OTHER -> <<c + Mul049(a), c + Mul049(a), c + Mul049(b), c + Mul049(b)>>

Shift(seg, w) == <<seg[1] + w, seg[2] + w, seg[3] + w, seg[4] + w>>

\* The strokes of ray k: the segment shifted by (w, w), w = 0..ray_width-1.
RayStrokes(k, s) == [w \in 1..ray_width(s) |-> Shift(Ray(k, s), w - 1)]

HighlightBox(s) ==
    LET hx == center(s) - Mul07(sun_radius(s))
    IN  <<hx, hx, hx + highlight_size(s), hx + highlight_size(s)>>

----------------------------------------------------------------------------
\* create_icon(size), line by line.

iconUnchanged == UNCHANGED <<probe, mainVars, ncalls, calls, log, ret>>

\* Entering create_icon(n): a fresh frame.
StartCall(n) ==
    /\ pc' = "L11"
    /\ size' = n
    /\ heap' = <<>>
    /\ img' = 0
    /\ draw' = 0
    /\ glass_overlay' = 0
    /\ i' = 0
    /\ strokes' = <<>>
    /\ putArg' = <<>>
    /\ ret' = <<>>
    /\ ncalls' = ncalls + 1
    /\ calls' = Append(calls, n)

\* Line 11: img = Image.new('RGBA', (size, size), (0, 0, 0, 0)).
\* Pillow rejects a negative width or height and accepts zero.
NewCanvas ==
    /\ pc = "L11"
    /\ IF size < 0
       THEN /\ pc' = "raised"
            /\ UNCHANGED <<heap, img>>
       ELSE /\ heap' = Append(heap, Image_new(size, size, Transparent, ncalls))
            /\ img' = Len(heap) + 1
            /\ pc' = "L12"
    /\ UNCHANGED <<size, draw, glass_overlay, i, strokes, putArg>>
    /\ iconUnchanged

\* Line 12: draw = ImageDraw.Draw(img): bound to the image img names now.
BindDraw ==
    /\ pc = "L12"
    /\ draw' = img
    /\ pc' = "L15"
    /\ UNCHANGED <<size, heap, img, glass_overlay, i, strokes, putArg>>
    /\ iconUnchanged

\* Lines 15-22: the gradient loop; putpixel clips each channel to a byte.
GradientFill ==
    /\ pc = "L15"
    /\ IF InImage(size, size, probe)
       THEN /\ putArg' = GradientColour(probe[1], probe[2], size)
            /\ heap' = [heap EXCEPT ![img].px = ClipColour(putArg')]
       ELSE UNCHANGED <<putArg, heap>>
    /\ pc' = "L25"
    /\ UNCHANGED <<size, img, draw, glass_overlay, i, strokes>>
    /\ iconUnchanged

\* Line 25: glass_overlay = Image.new('RGBA', (size, size), (255, 255, 255, 25)).
NewOverlay ==
    /\ pc = "L25"
    /\ heap' = Append(heap, Image_new(size, size, GlassWhite, ncalls))
    /\ glass_overlay' = Len(heap) + 1
    /\ pc' = "L26"
    /\ UNCHANGED <<size, img, draw, i, strokes, putArg>>
    /\ iconUnchanged

\* Line 26: img = Image.alpha_composite(img, glass_overlay): img is rebound
\* to the new image, draw stays bound to the old one. Images of different
\* sizes are rejected.
Composite ==
    /\ pc = "L26"
    /\ IF heap[img].w = heap[glass_overlay].w /\ heap[img].h = heap[glass_overlay].h
       THEN /\ heap' = Append(heap, alpha_composite(heap[img], heap[glass_overlay], ncalls))
            /\ img' = Len(heap) + 1
            /\ pc' = "L29"
       ELSE /\ pc' = "raised"
            /\ UNCHANGED <<heap, img>>
    /\ UNCHANGED <<size, draw, glass_overlay, i, strokes, putArg>>
    /\ iconUnchanged

\* An allocation (lines 11, 25, 26) fails: MemoryError.
OutOfMemory ==
    /\ pc \in {"L11", "L25", "L26"}
    /\ pc' = "raised"
    /\ UNCHANGED frameVars
    /\ iconUnchanged

\* Lines 29-33: draw.ellipse(sun box, fill=gold), on the image of draw.
DrawSun ==
    /\ pc = "L29"
    /\ \E covered \in EllipseCover(SunBox(size), probe) :
          heap' = [heap EXCEPT ![draw] = Paint(@, covered, Gold)]
    /\ pc' = "L39"
    /\ UNCHANGED <<size, img, draw, glass_overlay, i, strokes, putArg>>
    /\ iconUnchanged

\* Lines 39-94, one iteration: the segment of ray i, stroked ray_width times.
DrawRay ==
    /\ pc = "L39"
    /\ i < 8
    /\ LET S == RayStrokes(i, size)
       IN  /\ strokes' = strokes \o [w \in 1..Len(S) |-> [i |-> i, w |-> w - 1, seg |-> S[w]]]
           /\ heap' = [heap EXCEPT ![draw] =
                         Paint(@, \E w \in 1..Len(S) : LineCover(S[w], probe), Gold)]
    /\ i' = i + 1
    /\ UNCHANGED <<pc, size, img, draw, glass_overlay, putArg>>
    /\ iconUnchanged

\* Lines 97-102, after the last ray: draw.ellipse(highlight box, translucent white).
DrawHighlight ==
    /\ pc = "L39"
    /\ i = 8
    /\ \E covered \in EllipseCover(HighlightBox(size), probe) :
          heap' = [heap EXCEPT ![draw] = Paint(@, covered, HighlightWhite)]
    /\ pc' = "L104"
    /\ UNCHANGED <<size, img, draw, glass_overlay, i, strokes, putArg>>
    /\ iconUnchanged

\* Line 104: return img.
Return ==
    /\ pc = "L104"
    /\ ret' = heap[img]
    /\ pc' = "returned"
    /\ UNCHANGED frameVars
    /\ UNCHANGED <<probe, mainVars, ncalls, calls, log>>

create_icon ==
    \/ NewCanvas
    \/ BindDraw
    \/ GradientFill
    \/ NewOverlay
    \/ Composite
    \/ OutOfMemory
    \/ DrawSun
    \/ DrawRay
    \/ DrawHighlight
    \/ Return

----------------------------------------------------------------------------
\* main().

Digit(d) == <<"0", "1", "2", "3", "4", "5", "6", "7", "8", "9">>[d + 1]

\* str(n) of a non-negative integer, as its decimal digits.
RECURSIVE Str(_)
Str(n) == IF n < 10 THEN <<Digit(n)>> ELSE Append(Str(n \div 10), Digit(n % 10))

\* f'icons/icon-{size}.png': the size once.
FileNameOnce(s) == <<"icons/icon-", Str(s), ".png">>

\* f'icons/icon-{size}x{size}.png'
FileName(s) == <<"icons/icon-", Str(s), "x", Str(s), ".png">>

Truncated == [w |-> 0, h |-> 0, call |-> 0, px |-> <<>>]

Msg(text, arg) == [text |-> text, arg |-> arg]

\* Lines 109-114: os.makedirs('icons', exist_ok=True), the sizes, the banner.
MainMakedirs ==
    /\ mpc = "start"
    /\ dirExists' = TRUE
    /\ stdout' = Append(stdout, Msg("Generating PWA icons...", <<>>))
    /\ idx' = 1
    /\ mpc' = "loop"
    /\ UNCHANGED <<probe, files, icon, pc, frameVars, ret, ncalls, calls, log>>

\* Line 109 fails (permissions, disk full): the exception ends the process.
MainMakedirsFail ==
    /\ mpc = "start"
    /\ mpc' = "crashed"
    /\ UNCHANGED <<probe, dirExists, files, idx, icon, stdout, pc, frameVars, ret,
                   ncalls, calls, log>>

\* Lines 116-118: the next size of the list, its message, the call.
MainLoop ==
    /\ mpc = "loop"
    /\ idx <= Len(Sizes)
    /\ stdout' = Append(stdout, Msg("Creating", FileName(Sizes[idx])))
    /\ StartCall(Sizes[idx])
    /\ mpc' = "rendering"
    /\ UNCHANGED <<probe, dirExists, files, idx, icon, log>>

\* Line 118: icon = the image create_icon returned.
MainGotIcon ==
    /\ mpc = "rendering"
    /\ pc = "returned"
    /\ icon' = ret
    /\ pc' = "idle"
    /\ mpc' = "save"
    /\ UNCHANGED <<probe, dirExists, files, idx, stdout, frameVars, ret, ncalls, calls, log>>

\* Line 118 raised, and a handler around the call skips the size.
MainRaiseSkip ==
    /\ mpc = "rendering"
    /\ pc = "raised"
    /\ pc' = "idle"
    /\ idx' = idx + 1
    /\ mpc' = "loop"
    /\ UNCHANGED <<probe, dirExists, files, icon, stdout, frameVars, ret,
                   ncalls, calls, log>>

\* Line 118 raised: main has no handler, the exception ends the process.
MainRaise ==
    /\ mpc = "rendering"
    /\ pc = "raised"
    /\ pc' = "idle"
    /\ mpc' = "crashed"
    /\ UNCHANGED <<probe, dirExists, files, idx, icon, stdout, frameVars, ret,
                   ncalls, calls, log>>

\* Line 119: icon.save(f'icons/icon-{size}x{size}.png', 'PNG').
MainSave ==
    /\ mpc = "save"
    /\ dirExists
    /\ files' = Append(files, [name |-> FileName(Sizes[idx]), image |-> icon])
    /\ idx' = idx + 1
    /\ mpc' = "loop"
    /\ UNCHANGED <<probe, dirExists, icon, stdout, pc, frameVars, ret, ncalls, calls, log>>

\* Line 119 fails: the exception ends the process; the file of this size is
\* absent or left truncated.
MainSaveFail ==
    /\ mpc = "save"
    /\ \E partial \in BOOLEAN :
          files' = IF partial
                   THEN Append(files, [name |-> FileName(Sizes[idx]), image |-> Truncated])
                   ELSE files
    /\ mpc' = "crashed"
    /\ UNCHANGED <<probe, dirExists, idx, icon, stdout, pc, frameVars, ret, ncalls, calls, log>>

\* Lines 121-122: the list is exhausted.
MainDone ==
    /\ mpc = "loop"
    /\ idx > Len(Sizes)
    /\ stdout' = stdout \o <<Msg("All icons generated successfully!", <<>>),
                             Msg("Icons saved in the 'icons' directory.", <<>>)>>
    /\ mpc' = "done"
    /\ UNCHANGED <<probe, dirExists, files, idx, icon, pc, frameVars, ret, ncalls, calls, log>>

main ==
    \/ MainMakedirs
    \/ MainMakedirsFail
    \/ MainLoop
    \/ MainGotIcon
    \/ MainRaise
    \/ MainSave
    \/ MainSaveFail
    \/ MainDone

----------------------------------------------------------------------------
\* A caller of create_icon other than main: any of CallSizes, in any order.

HarnessCall ==
    /\ mpc = "off"
    /\ pc = "idle"
    /\ ncalls < MaxCalls
    /\ \E n \in CallSizes : StartCall(n)
    /\ UNCHANGED <<probe, mainVars, log>>

HarnessReturn ==
    /\ mpc = "off"
    /\ pc = "returned"
    /\ log' = Append(log, [size |-> size, image |-> ret])
    /\ pc' = "idle"
    /\ UNCHANGED <<probe, mainVars, frameVars, ret, ncalls, calls>>

HarnessCatch ==
    /\ mpc = "off"
    /\ pc = "raised"
    /\ pc' = "idle"
    /\ UNCHANGED <<probe, mainVars, frameVars, ret, ncalls, calls, log>>

harness ==
    \/ HarnessCall
    \/ HarnessReturn
    \/ HarnessCatch

----------------------------------------------------------------------------

InitFrame ==
    /\ pc = "idle"
    /\ size = 0
    /\ heap = <<>>
    /\ img = 0
    /\ draw = 0
    /\ glass_overlay = 0
    /\ i = 0
    /\ strokes = <<>>
    /\ putArg = <<>>
    /\ ret = <<>>
    /\ ncalls = 0
    /\ calls = <<>>
    /\ log = <<>>
    /\ files = <<>>
    /\ idx = 0
    /\ icon = <<>>
    /\ stdout = <<>>

\* The script is run: python generate_icons.py.
Init ==
    /\ probe \in Probes
    /\ mpc = "start"
    /\ dirExists \in BOOLEAN
    /\ InitFrame

Next == main \/ create_icon

Spec == Init /\ [][Next]_vars

\* create_icon is called by the harness.
InitCalls ==
    /\ probe \in {p \in Probes : p[1] = p[2]}
    /\ mpc = "off"
    /\ dirExists = FALSE
    /\ InitFrame

NextCalls == harness \/ create_icon

SpecCalls == InitCalls /\ [][NextCalls]_vars

----------------------------------------------------------------------------
\* Properties.

Supported(n) == \E k \in 1..Len(Sizes) : Sizes[k] = n

Sq(a) == a * a

\* The sun disc of a size-s icon: radius int(0.23*s) around (s//2, s//2).
InSunDisc(p, s) ==
    Sq(p[1] - center(s)) + Sq(p[2] - center(s)) <= Sq(sun_radius(s))

\* C1: for every supported size, every pixel of the sun disc of the image
\* create_icon returns is gold (255,215,0,255).
C1_SunDiscGold ==
    (pc = "returned" /\ Supported(size) /\ InSunDisc(probe, size))
        => ret.px = Gold

Sign(a) == IF a > 0 THEN 1 ELSE IF a < 0 THEN -1 ELSE 0

\* The directions of the rays, in the order of the loop: right, bottom-right,
\* bottom, bottom-left, left, top-left, top, top-right (y grows downwards).
Compass == << <<1, 0>>, <<1, 1>>, <<0, 1>>, <<-1, 1>>,
              <<-1, 0>>, <<-1, -1>>, <<0, -1>>, <<1, -1>> >>

RaysDrawn == {k \in 1..Len(strokes) : strokes[k].w = 0}

\* C2: for size >= 16 create_icon computes exactly 8 rays, one per compass
\* direction, and the start point of each differs from its end point.
C2_EightNonzeroRays ==
    (size >= 16 /\ pc \in {"L39", "L104", "returned"}) =>
        /\ \A k \in RaysDrawn :
              LET r == strokes[k]
              IN  /\ <<r.seg[1], r.seg[2]>> # <<r.seg[3], r.seg[4]>>
                  /\ Sign(r.seg[1] - center(size)) = Compass[r.i + 1][1]
                  /\ Sign(r.seg[2] - center(size)) = Compass[r.i + 1][2]
        /\ pc \in {"L104", "returned"} =>
              {strokes[k].i : k \in RaysDrawn} = 0..7 /\ Cardinality(RaysDrawn) = 8

\* C3: create_icon with a non-positive size never returns an image.
C3_NonPositiveFaults == ~(pc = "returned" /\ size <= 0)

\* C4: every channel of the colour handed to putpixel lies in 0..255.
C4_ChannelsInRange ==
    (Supported(size) /\ putArg # <<>>) =>
        \A c \in 1..4 : putArg[c] >= 0 /\ putArg[c] <= 255

\* C5: for every supported size N create_icon returns an N x N image, and
\* every image of the call (canvas, overlay, composite) is N x N throughout.
C5_ReturnsNxN ==
    Supported(size) =>
        /\ pc \notin {"idle", "raised"} =>
              \A k \in 1..Len(heap) : heap[k].w = size /\ heap[k].h = size
        /\ pc = "returned" => ret.w = size /\ ret.h = size

C5_Witness == pc = "returned" /\ size = 512 /\ ret.w = 512 /\ ret.h = 512 /\ Len(heap) = 3

\* C6: two calls of create_icon with the same size return the same pixels,
\* whatever was called in between, and a call only touches images it
\* allocated itself.
C6_Deterministic ==
    /\ \A a, b \in 1..Len(log) :
          log[a].size = log[b].size =>
              /\ log[a].image.px = log[b].image.px
              /\ log[a].image.w = log[b].image.w
              /\ log[a].image.h = log[b].image.h
    /\ pc \notin {"idle", "raised"} =>
          \A k \in 1..Len(heap) : heap[k].call = ncalls
    /\ pc = "returned" => ret.call = ncalls

C6_Witness ==
    /\ Len(log) = 3
    /\ log[1].size = 72 /\ log[2].size = 96 /\ log[3].size = 72
    /\ log[1].image.px # <<>>
    /\ log[1].image.px # log[2].image.px

\* C7: the directory exists before the first file is written, and a run of
\* main that completes has written exactly the eight files
\* icon-<size>x<size>.png, in the order of the list, each holding the image
\* create_icon returned for that size.
C7_MainWritesAll ==
    /\ Len(files) > 0 => (dirExists /\ Len(stdout) > 0)
    /\ mpc = "done" =>
          /\ Len(files) = 8
          /\ calls = Sizes
          /\ files[1].name = <<"icons/icon-", <<"7", "2">>, "x", <<"7", "2">>, ".png">>
          /\ files[8].name = <<"icons/icon-", <<"5", "1", "2">>, "x", <<"5", "1", "2">>, ".png">>
          /\ \A k \in 1..8 :
                /\ files[k].name = <<"icons/icon-", Str(Sizes[k]), "x", Str(Sizes[k]), ".png">>
                /\ files[k].image.call = k
                /\ files[k].image.w = Sizes[k]
                /\ files[k].image.h = Sizes[k]

C7_Witness == mpc = "done" /\ Len(files) = 8 /\ files[8].image.px # <<>>

Printed(text) == \E k \in 1..Len(stdout) : stdout[k].text = text

\* The state of a run that ended in a fault at position idx of the list:
\* the earlier sizes have their complete files, no later size was rendered
\* or written, and the success message was not printed.
CrashState ==
    mpc = "crashed" =>
        /\ ~Printed("All icons generated successfully!")
        /\ Len(calls) <= idx
        /\ Len(files) <= idx
        /\ \A k \in 1..Len(calls) : calls[k] = Sizes[k]
        /\ \A k \in 1..Len(files) : files[k].name = FileName(Sizes[k])
        /\ \A k \in 1..(idx - 1) :
              /\ k <= Len(files)
              /\ files[k].image.call = k
              /\ files[k].image.w = Sizes[k]

\* A step of a run: none is taken after the fault, an exception raised by
\* create_icon ends the run at once, and a file once written stays as it is.
CrashStep ==
    /\ mpc # "crashed"
    /\ (mpc = "rendering" /\ pc = "raised") => mpc' = "crashed"
    /\ \A k \in 1..Len(files) : Len(files') >= k /\ files'[k] = files[k]

\* C8: a failing render or write ends main at that point: no later size is
\* rendered or written, the earlier files stay unchanged, the success
\* message is not printed.
C8_FaultTerminates == [](CrashState) /\ [][CrashStep]_vars

\* The render of the third size failed: two files written, the icon in hand
\* is still that of the second size.
C8_Witness ==
    /\ mpc = "crashed"
    /\ idx = 3
    /\ Len(files) = 2
    /\ calls = <<72, 96, 128>>
    /\ icon.call = 2

\* C9: every drawing operation of a call acts on the canvas the call
\* returns: where the sun, the rays and the highlight are drawn, and at the
\* return, the image draw is bound to is the image img names.
C9_SingleCanvas ==
    pc \in {"L29", "L39", "L104", "returned"} => draw = img

InCanvas(seg, s) == \A c \in 1..4 : seg[c] >= 0 /\ seg[c] <= s - 1

StartsOutsideSun(seg, s) ==
    Sq(seg[1] - center(s)) + Sq(seg[2] - center(s)) > Sq(sun_radius(s))

\* C10 as claimed: for every supported size every stroke of every ray lies
\* inside the canvas and starts strictly outside the sun disc.
C10_StrokesOutsideSun ==
    Supported(size) =>
        \A k \in 1..Len(strokes) :
            /\ InCanvas(strokes[k].seg, size)
            /\ StartsOutsideSun(strokes[k].seg, size)

\* C10 as amended: every stroke lies inside the canvas, and starts strictly
\* outside the sun disc except the last stroke (w = 7) of the top-left ray
\* (i = 5) at size 512.
C10_StrokesAmended ==
    Supported(size) =>
        \A k \in 1..Len(strokes) :
            /\ InCanvas(strokes[k].seg, size)
            /\ \/ StartsOutsideSun(strokes[k].seg, size)
               \/ (size = 512 /\ strokes[k].i = 5 /\ strokes[k].w = 7)

C10_Witness ==
    /\ size = 512
    /\ Len(strokes) = 64
    /\ \E k \in 1..Len(strokes) :
          /\ strokes[k].i = 5 /\ strokes[k].w = 6
          /\ StartsOutsideSun(strokes[k].seg, size)

====
